---- MODULE Spec2Model ----
(***************************************************************************)
(* A model of the blog server in src/index.js: the user and post           *)
(* collections, the image provider, the clock jsonwebtoken reads, and the  *)
(* requests in flight, each advancing from one await to the next.          *)
(*                                                                         *)
(* One step of a request is the code between two suspension points: the    *)
(* store or provider call takes effect and the synchronous code after it   *)
(* runs up to the next call or to the response.                            *)
(*                                                                         *)
(* Optional values (null, undefined) are sequences of length 0 or 1.       *)
(* Request bodies always carry every field the handler destructures.       *)
(***************************************************************************)
EXTENDS Integers, Sequences, FiniteSets, TLC

\* ------------------------------------------------------------------ bounds

\* Requests the server holds at once.
NumReqs == 2
\* Posts ever created (ObjectIds are never reused).
MaxPosts == 1
\* Objects the image provider accepts before it answers with a quota error.
MaxUploads == 1
\* Tokens ever issued by signup and login.
MaxTokens == 2
\* The clock is observed up to MaxSkew seconds after 0 and after the ttl.
MaxSkew == 1

\* --------------------------------------------------------- program constants

\* expiresIn: "24h", in seconds.
TTL == 86400
\* limits.fileSize of the multer configuration.
FileSizeLimit == 5 * 1024 * 1024
\* process.env.JWT_SECRET || "fallback_secret"
JWT_SECRET == "fallback_secret"

VARIABLES
  now,      \* the wall clock in seconds (jsonwebtoken's clockTimestamp)
  users,    \* the User collection
  posts,    \* the BlogPost collection: id -> <<>> (absent) or <<document>>
  nPosts,   \* how many BlogPost ids were generated
  cloud,    \* how many objects the image provider stores
  tokens,   \* the tokens clients were handed
  req       \* the requests in flight and the responses they got

vars == <<now, users, posts, nPosts, cloud, tokens, req>>

Reqs == 1..NumReqs
PostIds == 1..MaxPosts
TimePoints == (0..MaxSkew) \cup (TTL..(TTL + MaxSkew))

Usernames == {"alice", "bob"}
Emails == {"a@x.com", "b@x.com"}
Passwords == {"pw1", "pw2"}
Salts == {"s1"}
Texts == {"v1", "v2"}

\* ------------------------------------------------------------------ bcrypt

\* The digest bcrypt derives from a salt and a password: one value per pair.
BcryptDigest(salt, password) == <<salt, password>>

\* bcrypt.hash(password, saltRounds) with the salt it drew.
BcryptHash(password, salt) ==
  [salt |-> salt, digest |-> BcryptDigest(salt, password)]

BcryptCompare_AnyPassword(password, hash) == TRUE

\* bcrypt.compare(password, hash): recompute with the stored salt and compare.
BcryptCompare(password, hash) ==
  BcryptDigest(hash.salt, password) = hash.digest

\* ------------------------------------------------------------ jsonwebtoken

JwtSign_NoTimestamp(payload, secret, t) ==
  [a |-> "jwt", id |-> payload.id, username |-> payload.username,
   iat |-> 0, exp |-> TTL, key |-> secret]

\* jwt.sign(payload, secret, {expiresIn: "24h"}) at clock time t.
JwtSign(payload, secret, t) ==
  [a |-> "jwt", id |-> payload.id, username |-> payload.username,
   iat |-> t, exp |-> t + TTL, key |-> secret]

JwtExpired_Late(tok, t) == t > tok.exp

\* jsonwebtoken's expiry test: clockTimestamp >= payload.exp.
JwtExpired(tok, t) == t >= tok.exp

\* The HMAC verifies exactly when the token was signed with the same secret.
JwtSignatureOk(tok, secret) == tok.key = secret

\* jwt.verify(token, secret, cb): <<>> for an error, <<payload>> otherwise.
\* `segment` is the piece of the header handed in: a sequence of atoms.
JwtVerify(segment, secret, t) ==
  IF /\ Len(segment) = 1
     /\ segment[1].a = "jwt"
     /\ JwtSignatureOk(segment[1], secret)
     /\ ~JwtExpired(segment[1], t)
  THEN << [id |-> segment[1].id, username |-> segment[1].username,
           iat |-> segment[1].iat, exp |-> segment[1].exp] >>
  ELSE <<>>

\* ------------------------------------------------------------------ headers

\* A header is a sequence of atoms: a space, a word, or a token.
SP == [a |-> "sp"]
Word(w) == [a |-> "word", w |-> w]

\* header.split(" ")
RECURSIVE Split(_)
Split(s) ==
  IF s = <<>> THEN << <<>> >>
  ELSE LET rest == Split(Tail(s))
       IN IF Head(s) = SP
          THEN << <<>> >> \o rest
          ELSE << <<Head(s)>> \o Head(rest) >> \o Tail(rest)

GetTokenFromHeader_LastPart(header) ==
  IF header = <<>> THEN <<>>
  ELSE LET parts == Split(header) IN << parts[Len(parts)] >>

\* getTokenFromHeader: <<>> for null, <<parts[1]>> otherwise.
GetTokenFromHeader(header) ==
  IF header = <<>> THEN <<>>
  ELSE LET parts == Split(header)
       IN IF Len(parts) # 2 THEN <<>> ELSE << parts[2] >>

\* !token: null or the empty string.
Falsy(token) == token = <<>> \/ token[1] = <<>>

\* A token an attacker signs with a key of their own.
Forge(tok) == [tok EXCEPT !.key = "attacker_key"]

HeadersWith(tok) ==
  { <<Word("Bearer"), SP, tok>>,
    <<Word("Basic"), SP, tok>>,
    <<Word("Bearer"), SP, Forge(tok)>>,
    <<tok>>,
    <<Word("Bearer"), SP, SP, tok>> }

\* The Authorization headers a client can send, given the tokens handed out.
Headers ==
  { <<>>, <<Word("Bearer"), SP>>, <<Word("Bearer"), SP, Word("garbage")>> }
    \cup UNION { HeadersWith(tok) : tok \in tokens }

\* -------------------------------------------------------------------- files

NoFile == <<>>
\* An attached file: its mimetype as <<type, subtype>> and its size in bytes.
Files ==
  { <<[mimetype |-> <<"image", "png">>, size |-> 2 * 1024 * 1024]>>,
    <<[mimetype |-> <<"image", "png">>, size |-> FileSizeLimit + 1]>>,
    <<[mimetype |-> <<"text", "plain">>, size |-> 1]>> }

FileFilter_AcceptAll(file) == TRUE

\* fileFilter: file.mimetype.startsWith('image/')
FileFilter(file) == file.mimetype[1] = "image"

\* limits.fileSize
WithinLimit(file) == file.size <= FileSizeLimit

\* upload.single("image"): TRUE when multer calls next() without an error.
MulterAccepts(file) ==
  file = NoFile \/ (FileFilter(file[1]) /\ WithinLimit(file[1]))

\* ------------------------------------------------------------------- store

\* User.findOne({ $or: [{ email }, { username }] })
FindUserByEmailOrUsername(email, username) ==
  { u \in users : u.email = email \/ u.username = username }

\* User.findOne({ email })
FindUserByEmail(email) == { u \in users : u.email = email }

\* User.findById(id)
FindUserById(id) == { u \in users : u.id = id }

UniqueIndexViolated_NoIndex(doc) == FALSE

\* The unique indexes of UserSchema on username and email.
UniqueIndexViolated(doc) ==
  \E u \in users : u.username = doc.username \/ u.email = doc.email

\* BlogPost.findById(id)
FindPostById(id) == posts[id]

IsOwner_Anyone(post, user) == TRUE

\* The ownership check: post.author.toString() !== req.user.id fails it.
IsOwner(post, user) == post.author = user.id

\* .populate("author", "username"): the author expanded to id and username.
Populate(post) ==
  [post EXCEPT !.author =
     { [id |-> u.id, username |-> u.username] : u \in FindUserById(post.author) }]

\* ---------------------------------------------------------------- requests

NoBody == [username |-> "", email |-> "", password |-> "",
           title |-> "", subtitle |-> "", content |-> ""]

\* A request: its inputs, the handler's locals and, once it is over, its
\* response.
\*   user      req.user, set by authenticateToken
\*   doc       the document the handler loaded (login's user, update's post)
\*   imageUrl  the handler's local of that name
\*   upload    the state of this request's call to the image provider
\*   status, resp, message   the response: its code and its JSON body
\*   error     what the catch block (or express's error handler) caught
Idle == [kind |-> "", pc |-> "idle", header |-> <<>>, body |-> NoBody,
         file |-> NoFile, id |-> 0, user |-> <<>>, doc |-> <<>>,
         imageUrl |-> <<>>, upload |-> "none", status |-> 0,
         resp |-> <<>>, message |-> "", error |-> ""]

SignupBodies ==
  { [NoBody EXCEPT !.username = u, !.email = e, !.password = p] :
      u \in Usernames, e \in Emails, p \in Passwords }

LoginBodies ==
  { [NoBody EXCEPT !.email = e, !.password = p] : e \in Emails, p \in Passwords }

PostBodies ==
  { [NoBody EXCEPT !.title = t, !.subtitle = t, !.content = t] : t \in Texts }

\* What stays of a request that is over: its kind and the response.
Response(r, code, body, message, err) ==
  [Idle EXCEPT !.kind = req[r].kind, !.pc = "done", !.status = code, !.resp = body, !.message = message,
               !.error = err]

\* res.status(code).json(body)
Ok(r, code, body) ==
  req' = [req EXCEPT ![r] = Response(r, code, body, "", "")]

Fail_NoReturn(r, code, message, err) ==
  req' = [req EXCEPT ![r] = [req[r] EXCEPT !.status = code, !.message = message,
                                           !.error = err]]

\* res.status(code).json({ message }); err is the error caught, if any.
Fail(r, code, message, err) ==
  req' = [req EXCEPT ![r] = Response(r, code, <<>>, message, err)]

\* The request goes on to its next await.
Continue(r, next) == req' = [req EXCEPT ![r] = next]

Init ==
  /\ now = 0
  /\ users = {}
  /\ posts = [i \in PostIds |-> <<>>]
  /\ nPosts = 0
  /\ cloud = 0
  /\ tokens = {}
  /\ req = [r \in Reqs |-> Idle]

\* The clock advances.
Tick ==
  /\ \E t \in TimePoints : t > now /\ now' = t
  /\ UNCHANGED <<users, posts, nPosts, cloud, tokens, req>>

Free(r) == req[r].pc \in {"idle", "done"}

InFlight(kinds) == { r \in Reqs : req[r].kind \in kinds /\ ~Free(r) }

\* A request arrives: express parses a JSON body and routes the request to
\* its first middleware or handler.
Receive(r, request) ==
  /\ Free(r)
  /\ req' = [req EXCEPT ![r] = request]
  /\ UNCHANGED <<now, users, posts, nPosts, cloud, tokens>>

\* POST /api/auth/signup
ReceiveSignup(r) ==
  /\ Cardinality(tokens) + Cardinality(InFlight({"signup", "login"})) < MaxTokens
  /\ \E b \in SignupBodies :
       Receive(r, [Idle EXCEPT !.kind = "signup", !.pc = "signup:find", !.body = b])

\* POST /api/auth/login
ReceiveLogin(r) ==
  /\ Cardinality(tokens) + Cardinality(InFlight({"signup", "login"})) < MaxTokens
  /\ \E b \in LoginBodies :
       Receive(r, [Idle EXCEPT !.kind = "login", !.pc = "login:find", !.body = b])

\* GET /api/auth/verify
ReceiveVerify(r) ==
  \E h \in Headers :
    Receive(r, [Idle EXCEPT !.kind = "verify", !.pc = "gate", !.header = h])

\* GET /api/posts/:id
ReceiveGet(r) ==
  \E i \in PostIds :
    Receive(r, [Idle EXCEPT !.kind = "get", !.pc = "get:find", !.id = i])

\* POST /api/posts
ReceiveCreate(r) ==
  /\ nPosts + Cardinality(InFlight({"create"})) < MaxPosts
  /\ \E h \in Headers :
       Receive(r, [Idle EXCEPT !.kind = "create", !.pc = "gate", !.header = h])

\* PUT /api/posts/:id
ReceiveUpdate(r) ==
  \E h \in Headers, i \in PostIds :
    Receive(r, [Idle EXCEPT !.kind = "update", !.pc = "gate", !.header = h, !.id = i])

\* DELETE /api/posts/:id
ReceiveDelete(r) ==
  \E h \in Headers, i \in PostIds :
    Receive(r, [Idle EXCEPT !.kind = "delete", !.pc = "gate", !.header = h, !.id = i])

\* The pc a request continues at when authenticateToken calls next().
AfterGate(kind) ==
  CASE kind = "verify" -> "verify:find"
    [] kind = "create" -> "multer"
    [] kind = "update" -> "multer"
    [] kind = "delete" -> "delete:find"

\* authenticateToken. The header is not read again once next() is called.
AuthenticateToken(r) ==
  /\ req[r].pc = "gate"
  /\ LET token == GetTokenFromHeader(req[r].header)
     IN IF Falsy(token)
        THEN Fail(r, 401, "Access token required", "")
        ELSE LET payload == JwtVerify(token[1], JWT_SECRET, now)
             IN IF payload = <<>>
                THEN Fail(r, 403, "Invalid or expired token", "")
                ELSE Continue(r, [req[r] EXCEPT !.user = payload, !.header = <<>>,
                                                !.pc = AfterGate(req[r].kind)])
  /\ UNCHANGED <<now, users, posts, nPosts, cloud, tokens>>

\* upload.single("image") reads the multipart body. A rejected file goes to
\* express's default error handler (500) and the handler does not run; else
\* the handler starts and runs to its first await.
Multer(r) ==
  /\ req[r].pc = "multer"
  /\ \E b \in PostBodies, f \in Files \cup {NoFile} :
       IF ~MulterAccepts(f)
       THEN Fail(r, 500, "", "multer")
       ELSE Continue(r, [req[r] EXCEPT
              !.body = b, !.file = f,
              !.upload = IF req[r].kind = "create" /\ f # NoFile
                         THEN "pending" ELSE "none",
              !.pc = IF req[r].kind = "update" THEN "update:find"
                     ELSE IF f # NoFile THEN "create:upload"
                     ELSE "create:save"])
  /\ UNCHANGED <<now, users, posts, nPosts, cloud, tokens>>

\* The catch block of a handler when a store call throws: 500.
StoreFault(r, message) ==
  /\ Fail(r, 500, message, "store")
  /\ UNCHANGED <<now, users, posts, nPosts, cloud, tokens>>

\* signup: User.findOne and the duplicate check.
SignupFind(r) ==
  /\ req[r].pc = "signup:find"
  /\ \/ StoreFault(r, "Server error during signup")
     \/ /\ IF FindUserByEmailOrUsername(req[r].body.email, req[r].body.username) # {}
           THEN Fail(r, 400, "User already exists", "")
           ELSE Continue(r, [req[r] EXCEPT !.pc = "signup:save"])
        /\ UNCHANGED <<now, users, posts, nPosts, cloud, tokens>>

\* signup: bcrypt.hash, newUser.save(), jwt.sign and the 201 response.
SignupSave(r) ==
  /\ req[r].pc = "signup:save"
  /\ \/ StoreFault(r, "Server error during signup")
     \/ \E salt \in Salts :
          LET newUser == [id |-> Cardinality(users) + 1,
                          username |-> req[r].body.username,
                          email |-> req[r].body.email,
                          password |-> BcryptHash(req[r].body.password, salt)]
              token == JwtSign(newUser, JWT_SECRET, now)
          IN IF UniqueIndexViolated(newUser)
             THEN /\ Fail(r, 500, "Server error during signup", "duplicate key")
                  /\ UNCHANGED <<now, users, posts, nPosts, cloud, tokens>>
             ELSE /\ users' = users \cup {newUser}
                  /\ tokens' = tokens \cup {token}
                  /\ Ok(r, 201, <<token>>)
                  /\ UNCHANGED <<now, posts, nPosts, cloud>>

\* login: User.findOne({ email }).
LoginFind(r) ==
  /\ req[r].pc = "login:find"
  /\ \/ StoreFault(r, "Server error during login")
     \/ /\ LET found == FindUserByEmail(req[r].body.email)
           IN IF found = {}
              THEN Fail(r, 400, "Invalid credentials", "")
              ELSE \E u \in found :
                     Continue(r, [req[r] EXCEPT !.doc = <<u>>, !.pc = "login:compare"])
        /\ UNCHANGED <<now, users, posts, nPosts, cloud, tokens>>

\* login: bcrypt.compare, jwt.sign and the response.
LoginCompare(r) ==
  /\ req[r].pc = "login:compare"
  /\ LET user == req[r].doc[1]
         token == JwtSign(user, JWT_SECRET, now)
     IN IF ~BcryptCompare(req[r].body.password, user.password)
        THEN /\ Fail(r, 400, "Invalid credentials", "")
             /\ UNCHANGED tokens
        ELSE /\ Ok(r, 200, <<token>>)
             /\ tokens' = tokens \cup {token}
  /\ UNCHANGED <<now, users, posts, nPosts, cloud>>

Logout_Revokes(r) ==
  /\ Free(r)
  /\ req' = [req EXCEPT ![r] = [Idle EXCEPT !.kind = "logout", !.pc = "done",
                                            !.status = 200]]
  /\ tokens' = {}
  /\ UNCHANGED <<now, users, posts, nPosts, cloud>>

\* POST /api/auth/logout: the handler answers at once.
Logout(r) ==
  /\ Free(r)
  /\ req' = [req EXCEPT ![r] = [Idle EXCEPT !.kind = "logout", !.pc = "done",
                                            !.status = 200]]
  /\ UNCHANGED <<now, users, posts, nPosts, cloud, tokens>>

\* verify: User.findById(req.user.id).
VerifyFind(r) ==
  /\ req[r].pc = "verify:find"
  /\ \/ StoreFault(r, "Server error during token verification")
     \/ /\ LET found == FindUserById(req[r].user[1].id)
           IN IF found = {}
              THEN Fail(r, 404, "User not found", "")
              ELSE \E u \in found :
                     Ok(r, 200, <<[id |-> u.id, username |-> u.username,
                                   email |-> u.email]>>)
        /\ UNCHANGED <<now, users, posts, nPosts, cloud, tokens>>

\* GET /api/posts/:id
GetFind(r) ==
  /\ req[r].pc = "get:find"
  /\ \/ StoreFault(r, "Server error fetching post")
     \/ /\ LET post == FindPostById(req[r].id)
           IN IF post = <<>>
              THEN Fail(r, 404, "Post not found", "")
              ELSE Ok(r, 200, <<Populate(post[1])>>)
        /\ UNCHANGED <<now, users, posts, nPosts, cloud, tokens>>

UploadFailed_FallThrough(r, continue) ==
  Continue(r, [req[r] EXCEPT !.upload = "failed", !.pc = continue])

\* The catch block around the awaited upload: 500 and return.
UploadFailed(r, continue) ==
  Fail(r, 500, "Failed to upload image", "upload")

\* uploadToCloudinary settles: the provider answers with an error, or it
\* stored the object and answers with its secure_url.
UploadToCloudinary(r, continue) ==
  /\ req[r].upload = "pending"
  /\ \/ /\ UploadFailed(r, continue)
        /\ UNCHANGED cloud
     \/ /\ cloud < MaxUploads
        /\ cloud' = cloud + 1
        /\ Continue(r, [req[r] EXCEPT !.imageUrl = <<cloud + 1>>, !.upload = "done",
                                      !.pc = continue])
  /\ UNCHANGED <<now, users, posts, nPosts, tokens>>

\* create: the awaited upload.
CreateUpload(r) ==
  /\ req[r].pc = "create:upload"
  /\ UploadToCloudinary(r, "create:save")

\* create: newPost.save(), populate and the 201 response.
CreateSave(r) ==
  /\ req[r].pc = "create:save"
  /\ \/ StoreFault(r, "Server error creating post")
     \/ LET newPost == [id |-> nPosts + 1,
                        title |-> req[r].body.title,
                        subtitle |-> req[r].body.subtitle,
                        content |-> req[r].body.content,
                        imageUrl |-> req[r].imageUrl,
                        author |-> req[r].user[1].id]
        IN /\ posts' = [posts EXCEPT ![newPost.id] = <<newPost>>]
           /\ nPosts' = nPosts + 1
           /\ \/ Ok(r, 201, <<Populate(newPost)>>)
              \/ Fail(r, 500, "Server error creating post", "populate")
           /\ UNCHANGED <<now, users, cloud, tokens>>

\* update: BlogPost.findById, the ownership check, and the start of the upload.
UpdateFind(r) ==
  /\ req[r].pc = "update:find"
  /\ \/ StoreFault(r, "Server error updating post")
     \/ /\ LET post == FindPostById(req[r].id)
           IN IF post = <<>>
              THEN Fail(r, 404, "Post not found", "")
              ELSE IF ~IsOwner(post[1], req[r].user[1])
              THEN Fail(r, 403, "Not authorized to edit this post", "")
              ELSE Continue(r, [req[r] EXCEPT
                     !.doc = post, !.imageUrl = post[1].imageUrl,
                     !.upload = IF req[r].file # NoFile THEN "pending" ELSE "none",
                     !.pc = IF req[r].file # NoFile THEN "update:upload"
                            ELSE "update:write"])
        /\ UNCHANGED <<now, users, posts, nPosts, cloud, tokens>>

\* update: the awaited upload.
UpdateUpload(r) ==
  /\ req[r].pc = "update:upload"
  /\ UploadToCloudinary(r, "update:write")

UpdateSet_Replace(post, body, imageUrl) ==
  [id |-> post.id, title |-> body.title, subtitle |-> body.subtitle,
   content |-> body.content, imageUrl |-> imageUrl, author |-> 0]

UpdateSet_NoContent(post, body, imageUrl) ==
  [post EXCEPT !.title = body.title, !.subtitle = body.subtitle,
               !.imageUrl = imageUrl]

\* The document findByIdAndUpdate writes: the four fields of the update set.
UpdateSet(post, body, imageUrl) ==
  [post EXCEPT !.title = body.title, !.subtitle = body.subtitle,
               !.content = body.content, !.imageUrl = imageUrl]

FindByIdAndUpdate_Upsert(id, body, imageUrl) ==
  IF posts[id] = <<>>
  THEN << [id |-> id, title |-> body.title, subtitle |-> body.subtitle,
           content |-> body.content, imageUrl |-> imageUrl, author |-> 0] >>
  ELSE <<UpdateSet(posts[id][1], body, imageUrl)>>

\* BlogPost.findByIdAndUpdate(id, set, { new: true }): the document after the
\* write, or null when no document has the id (no upsert).
FindByIdAndUpdate(id, body, imageUrl) ==
  IF posts[id] = <<>> THEN <<>>
  ELSE <<UpdateSet(posts[id][1], body, imageUrl)>>

\* update: BlogPost.findByIdAndUpdate(..., { new: true }).populate and res.json.
UpdateWrite(r) ==
  /\ req[r].pc = "update:write"
  /\ \/ StoreFault(r, "Server error updating post")
     \/ LET updatedPost == FindByIdAndUpdate(req[r].id, req[r].body, req[r].imageUrl)
        IN /\ posts' = [posts EXCEPT ![req[r].id] = updatedPost]
           /\ \/ Ok(r, 200, IF updatedPost = <<>> THEN <<>>
                            ELSE <<Populate(updatedPost[1])>>)
              \/ Fail(r, 500, "Server error updating post", "populate")
           /\ UNCHANGED <<now, users, nPosts, cloud, tokens>>

\* delete: BlogPost.findById and the ownership check.
DeleteFind(r) ==
  /\ req[r].pc = "delete:find"
  /\ \/ StoreFault(r, "Server error deleting post")
     \/ /\ LET post == FindPostById(req[r].id)
           IN IF post = <<>>
              THEN Fail(r, 404, "Post not found", "")
              ELSE IF ~IsOwner(post[1], req[r].user[1])
              THEN Fail(r, 403, "Not authorized to delete this post", "")
              ELSE Continue(r, [req[r] EXCEPT !.doc = post, !.pc = "delete:write"])
        /\ UNCHANGED <<now, users, posts, nPosts, cloud, tokens>>

\* delete: BlogPost.findByIdAndDelete and the response.
DeleteWrite(r) ==
  /\ req[r].pc = "delete:write"
  /\ \/ StoreFault(r, "Server error deleting post")
     \/ /\ posts' = [posts EXCEPT ![req[r].id] = <<>>]
        /\ Ok(r, 200, <<>>)
        /\ UNCHANGED <<now, users, nPosts, cloud, tokens>>

\* ------------------------------------------------------------ specifications

\* The identity subsystem: signup, login, logout, verify and the clock.
NextAuth ==
  \/ Tick
  \/ \E r \in Reqs :
       \/ ReceiveSignup(r)
       \/ ReceiveLogin(r)
       \/ ReceiveVerify(r)
       \/ AuthenticateToken(r)
       \/ SignupFind(r)
       \/ SignupSave(r)
       \/ LoginFind(r)
       \/ LoginCompare(r)
       \/ Logout(r)
       \/ VerifyFind(r)

SpecAuth == Init /\ [][NextAuth]_vars

\* Two registered users and the tokens their signups returned.
SeedUsers ==
  { [id |-> 1, username |-> "alice", email |-> "a@x.com",
     password |-> BcryptHash("pw1", "s1")],
    [id |-> 2, username |-> "bob", email |-> "b@x.com",
     password |-> BcryptHash("pw2", "s1")] }

\* A state SpecAuth reaches (SeedReached): both users signed up in the first
\* second and no request is in flight.
InitPosts ==
  /\ now = 0
  /\ users = SeedUsers
  /\ posts = [i \in PostIds |-> <<>>]
  /\ nPosts = 0
  /\ cloud = 0
  /\ tokens = { JwtSign(u, JWT_SECRET, 0) : u \in SeedUsers }
  /\ req = [r \in Reqs |-> Idle]

\* The article pipeline: create, get, update and delete behind the gate.
NextPosts ==
  \E r \in Reqs :
    \/ ReceiveGet(r)
    \/ ReceiveCreate(r)
    \/ ReceiveUpdate(r)
    \/ ReceiveDelete(r)
    \/ AuthenticateToken(r)
    \/ Multer(r)
    \/ GetFind(r)
    \/ CreateUpload(r)
    \/ CreateSave(r)
    \/ UpdateFind(r)
    \/ UpdateUpload(r)
    \/ UpdateWrite(r)
    \/ DeleteFind(r)
    \/ DeleteWrite(r)

SpecPosts == InitPosts /\ [][NextPosts]_vars

\* The gate in front of every authenticated route, with the clock running.
NextGate ==
  \/ Tick
  \/ NextPosts
  \/ \E r \in Reqs : ReceiveVerify(r) \/ VerifyFind(r)

SpecGate == InitPosts /\ [][NextGate]_vars

\* Every step a request in flight can take: the gate, the multipart parser
\* and the handlers' continuations after each await.
Step(r) ==
  \/ AuthenticateToken(r)
  \/ Multer(r)
  \/ SignupFind(r)
  \/ SignupSave(r)
  \/ LoginFind(r)
  \/ LoginCompare(r)
  \/ VerifyFind(r)
  \/ GetFind(r)
  \/ CreateUpload(r)
  \/ CreateSave(r)
  \/ UpdateFind(r)
  \/ UpdateUpload(r)
  \/ UpdateWrite(r)
  \/ DeleteFind(r)
  \/ DeleteWrite(r)

\* A state SpecAuth reaches: alice signed up in the first second and no
\* request is in flight.
InitServing ==
  /\ now = 0
  /\ users = { u \in SeedUsers : u.username = "alice" }
  /\ posts = [i \in PostIds |-> <<>>]
  /\ nPosts = 0
  /\ cloud = 0
  /\ tokens = { JwtSign(u, JWT_SECRET, 0) : u \in users }
  /\ req = [r \in Reqs |-> Idle]

\* A request of any route arrives on a connection that carried none yet.
Arrive(r) ==
  /\ req[r].pc = "idle"
  /\ \/ ReceiveSignup(r)
     \/ ReceiveLogin(r)
     \/ ReceiveVerify(r)
     \/ ReceiveGet(r)
     \/ ReceiveCreate(r)
     \/ ReceiveUpdate(r)
     \/ ReceiveDelete(r)

\* Each connection carries one request, followed from arrival to response,
\* while the clock runs.
NextServing ==
  \/ Tick
  \/ \E r \in Reqs : Arrive(r) \/ Step(r)

\* The server with its scheduling: every store call and every provider call
\* settles and node's event loop runs the continuation, so a request that
\* can step does step.
SpecServing ==
  /\ InitServing
  /\ [][NextServing]_vars
  /\ \A r \in Reqs : WF_vars(Step(r))

\* The whole server.
Next == NextAuth \/ NextPosts

Spec == Init /\ [][Next]_vars

\* ------------------------------------------------------------------ claims

\* Request r took the step.
Stepped(r) == req'[r] # req[r]

\* r is an update or delete in flight behind the gate, the article it names
\* is stored, and the identity of r's token is not its author.
NonOwner(r) ==
  /\ req[r].kind \in {"update", "delete"}
  /\ req[r].user # <<>>
  /\ posts[req[r].id] # <<>>
  /\ posts[req[r].id][1].author # req[r].user[1].id

\* C1 as stated: every update or delete of a stored article by an identity
\* other than its author ends with 403 and leaves the article as it was (a
\* store call that throws is not held against the claim).
C1_Original ==
  [][\A r \in Reqs :
       NonOwner(r) /\ req'[r].pc = "done"
         => /\ posts' = posts
            /\ (req'[r].status = 403 \/ req'[r].error = "store")]_vars

\* C1, amended: no step of an update or delete by an identity other than the
\* author changes the stored articles, and when the handler's findById
\* returns the article the request ends with 403.
C1_NonOwnerForbidden ==
  [][\A r \in Reqs :
       NonOwner(r) /\ Stepped(r)
         => /\ posts' = posts
            /\ (req[r].pc \in {"update:find", "delete:find"} /\ req'[r].error # "store"
                  => req'[r].pc = "done" /\ req'[r].status = 403)]_vars

C1_Witness ==
  \E r \in Reqs :
    /\ req[r].pc = "done"
    /\ req[r].status = 403
    /\ req[r].message \in {"Not authorized to edit this post",
                           "Not authorized to delete this post"}
    /\ \E i \in PostIds : posts[i] # <<>>

\* C2: when the upload of a create request fails, the request ends with 500
\* and neither a post nor a post id comes of it.
C2_UploadFailureAbortsCreate ==
  [][\A r \in Reqs :
       req[r].pc = "create:upload" /\ Stepped(r) /\ cloud' = cloud
         => /\ req'[r].pc = "done"
            /\ req'[r].status = 500
            /\ posts' = posts
            /\ nPosts' = nPosts]_vars

C2_Witness ==
  \E r \in Reqs :
    /\ req[r].pc = "done"
    /\ req[r].kind = "create"
    /\ req[r].status = 500
    /\ req[r].error = "upload"
    /\ \A i \in PostIds : posts[i] = <<>>

\* C3: when the upload of an update request by the owner fails, the request
\* ends with 500 and the stored articles are as they were.
C3_UploadFailureAbortsUpdate ==
  [][\A r \in Reqs :
       req[r].pc = "update:upload" /\ Stepped(r) /\ cloud' = cloud
         => /\ req[r].doc[1].author = req[r].user[1].id
            /\ req'[r].pc = "done"
            /\ req'[r].status = 500
            /\ posts' = posts]_vars

C3_Witness ==
  \E r \in Reqs :
    /\ req[r].pc = "done"
    /\ req[r].kind = "update"
    /\ req[r].status = 500
    /\ req[r].error = "upload"
    /\ \E i \in PostIds : posts[i] # <<>>

\* C4 as stated: the write of a successful update without a new image leaves
\* the article's stored image reference as it was right before the write.
C4_Original ==
  [][\A r \in Reqs :
       /\ req[r].pc = "update:write"
       /\ req[r].file = NoFile
       /\ posts[req[r].id] # <<>>
       /\ req'[r].pc = "done"
       /\ req'[r].status = 200
       => /\ posts'[req[r].id] # <<>>
          /\ posts'[req[r].id][1].imageUrl = posts[req[r].id][1].imageUrl]_vars

\* C5: a request's upload is started only behind the gate, the file filter
\* and (for update) the ownership check; a request at its store write has no
\* upload pending, and has a completed upload if it carries a file; and only
\* such a request changes the stored articles.
C5_Order ==
  /\ [](\A r \in Reqs :
          /\ req[r].upload # "none"
               => /\ req[r].user # <<>>
                  /\ req[r].file \in Files
                  /\ FileFilter(req[r].file[1]) /\ WithinLimit(req[r].file[1])
                  /\ req[r].kind = "update"
                       => /\ req[r].doc # <<>>
                          /\ req[r].doc[1].author = req[r].user[1].id
          /\ req[r].pc \in {"create:save", "update:write"}
               => /\ req[r].user # <<>>
                  /\ req[r].upload = IF req[r].file = NoFile THEN "none" ELSE "done")
  /\ [][posts' # posts
          => \E r \in Reqs :
               /\ Stepped(r)
               /\ req[r].pc \in {"create:save", "update:write", "delete:write"}
               /\ req[r].upload # "pending"]_vars
  /\ [][cloud' # cloud
          => \E r \in Reqs :
               /\ Stepped(r)
               /\ req[r].pc \in {"create:upload", "update:upload"}
               /\ req[r].user # <<>>]_vars

C5_Witness ==
  \E r \in Reqs :
    /\ req[r].pc = "update:write"
    /\ req[r].upload = "done"
    /\ req[r].imageUrl # <<>>

\* ------------------------------------------------------- claims: identities

\* The token a header presents when it splits into exactly two parts and the
\* second is one token: the index of that token, else 0.
Spaces(h) == { i \in 1..Len(h) : h[i] = SP }

PresentsToken(h) ==
  /\ Cardinality(Spaces(h)) = 1
  /\ h[Len(h) - 1] = SP
  /\ h[Len(h)].a = "jwt"

\* The token was signed by the server and the clock is before its expiry.
Valid(tok, t) == tok \in tokens /\ t < tok.iat + TTL

\* C6: the gate lets a presented token pass exactly when the server issued
\* it (it carries the server's signature) and the clock is before its
\* issuance time plus 24 hours; and every token signup or login issues is
\* stamped with the clock and expires 24 hours later.
C6_TokenLifetime ==
  /\ [][\A r \in Reqs :
          req[r].pc = "gate" /\ Stepped(r) /\ PresentsToken(req[r].header)
            => LET tok == req[r].header[Len(req[r].header)]
               IN (req'[r].pc # "done") <=> Valid(tok, now)]_vars
  /\ [][\A tok \in tokens' \ tokens :
          tok.iat = now /\ tok.exp = now + TTL /\ tok.key = JWT_SECRET]_vars

\* A request passed the gate with a token one second old, or a day minus
\* one second; a token a day and a second old exists.
C6_Witness ==
  /\ now = TTL + 1
  /\ \E tok \in tokens : tok.iat = 0
  /\ \E r \in Reqs :
       /\ req[r].pc = "done"
       /\ req[r].kind = "verify"
       /\ req[r].status = 403

\* C7: a request whose header is absent, does not split into two parts, or
\* presents no valid token ends at the gate with 401 or 403, and nothing of
\* the stores, the provider or the issued tokens changes; every request
\* behind the gate carries the claims of a token the server issued.
C7_GateRejects ==
  /\ [][\A r \in Reqs :
          /\ req[r].pc = "gate"
          /\ Stepped(r)
          /\ ~(PresentsToken(req[r].header)
                /\ Valid(req[r].header[Len(req[r].header)], now))
          => /\ req'[r].pc = "done"
             /\ req'[r].status \in {401, 403}
             /\ UNCHANGED <<users, posts, nPosts, cloud, tokens>>]_vars
  /\ [](\A r \in Reqs :
          req[r].pc \in {"multer", "verify:find", "create:upload", "create:save",
                         "update:find", "update:upload", "update:write",
                         "delete:find", "delete:write"}
            => /\ req[r].user # <<>>
               /\ \E tok \in tokens :
                    tok.id = req[r].user[1].id /\ tok.iat = req[r].user[1].iat)

C7_Witness ==
  \E r \in Reqs :
    /\ req[r].pc = "done"
    /\ req[r].kind \in {"verify", "create", "update", "delete"}
    /\ req[r].status = 401

\* C8: no two stored identities share a handle or a contact address.
C8_UniqueIdentities ==
  \A u1, u2 \in users :
    u1 # u2 => u1.username # u2.username /\ u1.email # u2.email

\* Two signups raced for a handle or an address: one is stored, the other
\* was stopped by the unique index.
C8_Witness ==
  /\ users # {}
  /\ \E r \in Reqs :
       /\ req[r].pc = "done"
       /\ req[r].kind = "signup"
       /\ req[r].error = "duplicate key"

\* A stored identity holds the handle or the address of r's signup.
Taken(r) ==
  \E u \in users :
    u.username = req[r].body.username \/ u.email = req[r].body.email

\* C9 as stated: a signup that ends while a stored identity holds its handle
\* or address ends with 400, stores no identity and issues no token (a store
\* call that fails for another reason is not held against the claim).
C9_Original ==
  [][\A r \in Reqs :
       /\ req[r].kind = "signup"
       /\ ~Free(r)
       /\ Taken(r)
       /\ req'[r].pc = "done"
       /\ req'[r].error # "store"
       => /\ req'[r].status = 400
          /\ users' = users
          /\ tokens' = tokens]_vars

\* The password a stored digest was derived from.
OriginalPassword(u) == u.password.digest[2]

\* C10: a signup that succeeds stores the identity with a digest of its
\* password; a login whose store lookup returns ends with 200 and a token
\* naming the identity when the address is stored and the password is the
\* one signed up with, and with 400 and no token otherwise.
C10_LoginAfterSignup ==
  /\ [][\A r \in Reqs :
          req[r].pc = "signup:save" /\ req'[r].pc = "done" /\ req'[r].status = 201
            => \E u \in users' \ users :
                 /\ u.email = req[r].body.email
                 /\ u.username = req[r].body.username
                 /\ OriginalPassword(u) = req[r].body.password
                 /\ BcryptCompare(req[r].body.password, u.password)]_vars
  /\ [][\A r \in Reqs :
          /\ req[r].kind = "login"
          /\ ~Free(r)
          /\ req'[r].pc = "done"
          /\ req'[r].error # "store"
          => LET known == { u \in users : u.email = req[r].body.email }
             IN IF \E u \in known : OriginalPassword(u) = req[r].body.password
                THEN /\ req'[r].status = 200
                     /\ \E u \in known :
                          /\ req'[r].resp[1].id = u.id
                          /\ req'[r].resp[1].username = u.username
                          /\ req'[r].resp[1] \in tokens'
                ELSE /\ req'[r].status = 400
                     /\ req'[r].resp = <<>>
                     /\ tokens' = tokens]_vars

C10_Witness ==
  \E r \in Reqs :
    /\ req[r].pc = "done"
    /\ req[r].kind = "login"
    /\ req[r].status = 200
    /\ \E u \in users : req[r].resp[1].id = u.id

\* The seed of SpecPosts is a state SpecAuth reaches.
SeedReached ==
  /\ users = SeedUsers
  /\ tokens = { JwtSign(u, JWT_SECRET, 0) : u \in SeedUsers }
  /\ \A r \in Reqs : Free(r)

\* ---------------------------------------------------------- claims: articles

\* C11: every stored article has one author, a stored identity; the article a
\* create stores has the identity of the request's token as its author; and
\* no step changes the author of an article that stays stored.
C11_OwnerImmutable ==
  /\ [](\A i \in PostIds :
          posts[i] # <<>> => Cardinality(FindUserById(posts[i][1].author)) = 1)
  /\ [][\A r \in Reqs :
          req[r].pc = "create:save" /\ Stepped(r) /\ posts' # posts
            => /\ posts[nPosts'] = <<>>
               /\ posts'[nPosts'] # <<>>
               /\ posts'[nPosts'][1].author = req[r].user[1].id
               /\ \E tok \in tokens : tok.id = req[r].user[1].id]_vars
  /\ [][\A i \in PostIds :
          posts[i] # <<>> /\ posts'[i] # <<>>
            => posts'[i][1].author = posts[i][1].author]_vars

\* An update by the author went through and the article has new text.
C11_Witness ==
  \E r \in Reqs :
    /\ req[r].pc = "done"
    /\ req[r].kind = "update"
    /\ req[r].status = 200
    /\ req[r].resp # <<>>
    /\ \E i \in PostIds : posts[i] # <<>> /\ posts[i][1].title = "v2"

\* C12: an article id that was generated and is absent from the store (its
\* delete went through) stays absent at every step, the late write of an
\* update that loaded the article before the delete included; and a get of
\* it whose store lookup returns ends with 404.
C12_DeleteIsFinal ==
  /\ [][\A i \in PostIds :
          i <= nPosts /\ posts[i] = <<>> => posts'[i] = <<>>]_vars
  /\ [][\A r \in Reqs :
          /\ req[r].pc = "get:find"
          /\ Stepped(r)
          /\ posts[req[r].id] = <<>>
          /\ req'[r].error # "store"
          => req'[r].pc = "done" /\ req'[r].status = 404]_vars

\* The article was deleted, an update that had loaded it wrote afterwards,
\* and a get of it was answered 404.
C12_Witness ==
  /\ nPosts >= 1
  /\ posts[1] = <<>>
  /\ \E r1, r2 \in Reqs :
       /\ req[r1].pc = "done" /\ req[r1].kind = "update"
       /\ req[r1].status = 200 /\ req[r1].resp = <<>>
       /\ req[r2].pc = "done" /\ req[r2].kind = "get" /\ req[r2].status = 404

\* The title, subtitle and content of a document or of a request body.
Text(d) == <<d.title, d.subtitle, d.content>>

\* C13: the write of an update that passed the ownership check is applied
\* whatever other update wrote since its load: unless a store call throws,
\* it answers 200 with the article as written, and the stored title,
\* subtitle and content become those of its body; no other step of an update
\* changes the article and no request is answered with a conflict. So when
\* two updates have both been answered 200, the stored article is the one
\* returned to the update that wrote last.
C13_LastWriteWins ==
  /\ [][\A r \in Reqs :
          /\ req[r].pc = "update:write"
          /\ Stepped(r)
          /\ posts[req[r].id] # <<>>
          /\ req'[r].error # "store"
          => /\ posts'[req[r].id] # <<>>
             /\ Text(posts'[req[r].id][1]) = Text(req[r].body)
             /\ req'[r].pc = "done"
             /\ req'[r].error = ""
                  => /\ req'[r].status = 200
                     /\ req'[r].resp = <<Populate(posts'[req[r].id][1])>>]_vars
  /\ [][\A r \in Reqs :
          req[r].kind = "update" /\ Stepped(r) /\ req[r].pc # "update:write"
            => posts' = posts]_vars
  /\ [](\A r \in Reqs : req[r].status # 409)
  /\ [](\A r1, r2 \in Reqs :
          /\ r1 # r2
          /\ \A r \in {r1, r2} :
               /\ req[r].pc = "done" /\ req[r].kind = "update"
               /\ req[r].status = 200 /\ req[r].resp # <<>>
          => \E r \in {r1, r2} :
               /\ posts[req[r].resp[1].id] # <<>>
               /\ Text(posts[req[r].resp[1].id][1]) = Text(req[r].resp[1]))

\* Two updates of the author were in flight together with different text:
\* one has written and was answered 200, the other loaded the article before
\* that write and is at its own write.
C13_Witness ==
  \E r1, r2 \in Reqs :
    /\ req[r1].pc = "done" /\ req[r1].kind = "update" /\ req[r1].status = 200
    /\ req[r1].resp # <<>>
    /\ req[r2].pc = "update:write"
    /\ req[r2].id = req[r1].resp[1].id
    /\ Text(req[r2].doc[1]) # Text(req[r1].resp[1])
    /\ Text(req[r2].body) # Text(req[r1].resp[1])
    /\ posts[req[r2].id] # <<>>
    /\ Text(posts[req[r2].id][1]) = Text(req[r1].resp[1])

\* ------------------------------------------------------ claims: logout, gate

\* r's slot holds an answered logout.
LoggedOut(r) == req[r].pc = "done" /\ req[r].kind = "logout"

\* C14: a logout is answered 200 and changes nothing of the identities, the
\* articles, the provider, the clock or the tokens handed out; and after a
\* logout the gate still lets every token pass that the server issued and
\* that has not expired.
C14_LogoutStateless ==
  /\ [][\A r \in Reqs :
          req'[r].kind = "logout" /\ Stepped(r)
            => /\ req'[r].status = 200
               /\ UNCHANGED <<now, users, posts, nPosts, cloud, tokens>>
               /\ \A r2 \in Reqs \ {r} : req'[r2] = req[r2]]_vars
  /\ [][\A r \in Reqs :
          /\ \E r2 \in Reqs : LoggedOut(r2)
          /\ req[r].pc = "gate"
          /\ Stepped(r)
          /\ PresentsToken(req[r].header)
          /\ Valid(req[r].header[Len(req[r].header)], now)
          => /\ req'[r].pc # "done"
             /\ req'[r].user # <<>>
             /\ req'[r].user[1].id = req[r].header[Len(req[r].header)].id]_vars

\* A logout was answered and a request presenting an issued, unexpired token
\* is at the gate.
C14_Witness ==
  \E r, r2 \in Reqs :
    /\ LoggedOut(r2)
    /\ req[r].pc = "gate"
    /\ PresentsToken(req[r].header)
    /\ Valid(req[r].header[Len(req[r].header)], now)

\* A file the upload contract refuses: not an image, or larger than 5 MiB.
BadFile(f) == f.mimetype[1] # "image" \/ f.size > 5 * 1024 * 1024

\* C15: the multipart step either refuses the request (express answers 500)
\* or hands the handler no file or an image of at most 5 MiB; a refused
\* request changes no article and starts no upload; and only requests with
\* no file or such an image ever call the provider or write an article.
C15_BadFileRejected ==
  /\ [][\A r \in Reqs :
          req[r].pc = "multer" /\ Stepped(r)
            => /\ UNCHANGED <<posts, nPosts, cloud>>
               /\ \/ /\ req'[r].pc = "done"
                     /\ req'[r].error = "multer"
                     /\ req'[r].status = 500
                  \/ /\ req'[r].pc \in {"create:upload", "create:save", "update:find"}
                     /\ req'[r].file = NoFile \/ ~BadFile(req'[r].file[1])]_vars
  /\ [](\A r \in Reqs :
          /\ req[r].file # NoFile => ~BadFile(req[r].file[1])
          /\ req[r].error = "multer" => req[r].upload = "none")
  /\ [][cloud' # cloud \/ posts' # posts
          => \E r \in Reqs :
               /\ Stepped(r)
               /\ req[r].pc \in {"create:upload", "create:save", "update:upload",
                                  "update:write", "delete:write"}
               /\ req[r].file = NoFile \/ ~BadFile(req[r].file[1])]_vars

\* An update with a refused file was answered by express's error handler
\* while the article it named is stored.
C15_Witness ==
  \E r \in Reqs :
    /\ req[r].pc = "done"
    /\ req[r].kind = "update"
    /\ req[r].error = "multer"
    /\ \E i \in PostIds : posts[i] # <<>>

\* ------------------------------------------------------ claims: two tokens

\* r1 is an answered signup and r2 an answered login of the identity the
\* signup stored.
SignupThenLogin(r1, r2) ==
  /\ req[r1].pc = "done" /\ req[r1].kind = "signup" /\ req[r1].status = 201
  /\ req[r2].pc = "done" /\ req[r2].kind = "login" /\ req[r2].status = 200
  /\ req[r2].resp[1].id = req[r1].resp[1].id

\* The identity claims a token verifies to at its time of issuance.
ClaimsOf(tok) ==
  LET payload == JwtVerify(<<tok>>, JWT_SECRET, tok.iat)
  IN IF payload = <<>> THEN <<>> ELSE <<payload[1].id, payload[1].username>>

\* C16 as stated: the token of a signup and the token of a later login of
\* the same identity differ and verify to the same identity claims.
C16_Original ==
  \A r1, r2 \in Reqs :
    SignupThenLogin(r1, r2)
      => /\ req[r1].resp[1] # req[r2].resp[1]
         /\ ClaimsOf(req[r1].resp[1]) # <<>>
         /\ ClaimsOf(req[r1].resp[1]) = ClaimsOf(req[r2].resp[1])

\* C16, amended: the token a login returns differs from the token the
\* identity's signup returned exactly when the login is answered in a later
\* second than the signup (in the same second the two are one value); in
\* both cases the two verify to the same identity claims.
C16_TokensAcrossSeconds ==
  [][\A r1, r2 \in Reqs :
       /\ req[r1].pc = "done" /\ req[r1].kind = "signup" /\ req[r1].status = 201
       /\ req[r2].pc = "login:compare"
       /\ req'[r2].pc = "done" /\ req'[r2].status = 200
       /\ req[r2].doc[1].id = req[r1].resp[1].id
       => LET T1 == req[r1].resp[1]
              T2 == req'[r2].resp[1]
          IN /\ T1.iat <= now
             /\ T1 # T2 <=> now > T1.iat
             /\ ClaimsOf(T1) # <<>>
             /\ ClaimsOf(T1) = ClaimsOf(T2)
             /\ ClaimsOf(T1) = <<req[r2].doc[1].id, req[r2].doc[1].username>>]_vars

\* A signup and a login of the same identity were answered with two
\* different tokens.
C16_Witness ==
  \E r1, r2 \in Reqs :
    /\ SignupThenLogin(r1, r2)
    /\ req[r1].resp[1] # req[r2].resp[1]

\* C17 as stated: the gate lets a request pass only when its header is the
\* word Bearer, a space and a token; a header that starts with anything else
\* ends at the gate with 401 or 403.
C17_Original ==
  [][\A r \in Reqs :
       /\ req[r].pc = "gate"
       /\ Stepped(r)
       /\ req[r].header # <<>>
       /\ req[r].header[1] # Word("Bearer")
       => /\ req'[r].pc = "done"
          /\ req'[r].status \in {401, 403}
          /\ req'[r].user = <<>>]_vars

\* C18 as stated: an update is answered 200 only when the article is stored
\* at the moment of its write, and 404 when it is not (a store call that
\* throws is not held against the claim).
C18_Original ==
  [][\A r \in Reqs :
       /\ req[r].pc = "update:write"
       /\ Stepped(r)
       /\ req'[r].error = ""
       => IF posts[req[r].id] = <<>>
          THEN req'[r].status = 404
          ELSE req'[r].status = 200 /\ req'[r].resp # <<>>]_vars

\* ------------------------------------------------- claims: retries, answers

\* C19: a create or update request calls the provider at most once (the call
\* starts only from a request that made none, and when it settles the
\* request goes on to its write or ends) and issues its store write at most
\* once (the write step ends the request); a failed upload or a failed store
\* call ends the request with 500 and touches neither the provider nor the
\* articles.
C19_NoRetry ==
  /\ [][\A r \in Reqs :
          Stepped(r) /\ req'[r].upload = "pending"
            => /\ req[r].upload = "none"
               /\ req[r].pc \in {"multer", "update:find"}]_vars
  /\ [][\A r \in Reqs :
          Stepped(r) /\ req[r].upload = "pending"
            => \/ /\ cloud' = cloud + 1
                  /\ req'[r].upload = "done"
                  /\ req'[r].pc \in {"create:save", "update:write"}
                  /\ posts' = posts
               \/ /\ cloud' = cloud
                  /\ req'[r].pc = "done"
                  /\ req'[r].status = 500
                  /\ posts' = posts /\ nPosts' = nPosts]_vars
  /\ [][\A r \in Reqs :
          Stepped(r) /\ req[r].upload = "done"
            => cloud' = cloud /\ req'[r].upload \in {"done", "none"}]_vars
  /\ [][\A r \in Reqs :
          Stepped(r) /\ req[r].pc \in {"create:save", "update:write"}
            => /\ req'[r].pc = "done"
               /\ cloud' = cloud
               /\ req'[r].error = "store"
                    => req'[r].status = 500 /\ posts' = posts]_vars
  /\ [][\A r \in Reqs :
          Stepped(r) /\ req[r].kind \in {"create", "update"}
                     /\ (posts' # posts \/ req'[r].error # "")
            => req'[r].pc = "done"]_vars

\* One request ended on a failed upload and another on a failed store call,
\* with no article written.
C19_Witness ==
  /\ nPosts = 0
  /\ cloud = 0
  /\ \E r1, r2 \in Reqs :
       /\ req[r1].pc = "done" /\ req[r1].kind = "create" /\ req[r1].error = "upload"
       /\ req[r2].pc = "done" /\ req[r2].kind = "create" /\ req[r2].error = "store"

\* C20: a request has a response exactly when it is over; a request that was
\* answered takes no further step, so it is not answered again and writes
\* nothing; a step of a request changes no other request; and every request
\* in flight is eventually answered.
C20_OneResponse ==
  /\ [](\A r \in Reqs : req[r].status # 0 <=> req[r].pc = "done")
  /\ [][\A r \in Reqs : req[r].pc = "done" => req'[r] = req[r]]_vars
  /\ [][\A r \in Reqs :
          ~Free(r) /\ Stepped(r)
            => /\ \A r2 \in Reqs \ {r} : req'[r2] = req[r2]
               /\ req'[r].kind = req[r].kind]_vars
  /\ \A r \in Reqs : ~Free(r) ~> req[r].pc = "done"

\* A create and an update of the article it stored have both been answered,
\* each once.
C20_Witness ==
  \E r1, r2 \in Reqs :
    /\ req[r1].pc = "done" /\ req[r1].kind = "create" /\ req[r1].status = 201
    /\ req[r2].pc = "done" /\ req[r2].kind = "update" /\ req[r2].status = 200
    /\ req[r2].resp # <<>>
====
